---- MODULE Spec2Model ----
(***************************************************************************)
(* Model of perceval/utils/mlstr.py: the multiline string ("Block Value")  *)
(* and its operators.  A text is a sequence of one-character strings; the  *)
(* instances of mlstr live in a heap that maps an object to its _s field.  *)
(***************************************************************************)
EXTENDS Integers, Sequences, FiniteSets, TLC

VARIABLES heap,   \* heap[o] is the _s field of the mlstr instance o
          list,   \* the argument sequence the caller holds (args of %, list_str of join)
          call,   \* the operation last invoked, with its receiver and argument
          ret,    \* what that operation returned or raised
          old     \* the heap as it was when that operation was invoked

vars == <<heap, list, call, ret, old>>

----------------------------------------------------------------------------
(* Bounds of the input domains *)

MaxRows == 2
MaxWidth == 1
MaxItems == 2
MaxFmt == 4
MaxPrefix == 2
MaxRowItems == 3
MaxRowWidth == 2

Obj == {1, 2}

NL == "\n"
SP == " "

----------------------------------------------------------------------------
(* Python values: a str, a reference to an mlstr instance, an int *)

NoText == << >>
StrV(t) == [k |-> "str", t |-> t, n |-> 0]
ObjV(o) == [k |-> "obj", t |-> NoText, n |-> o]
IntV(i) == [k |-> "int", t |-> NoText, n |-> i]
NoneV == [k |-> "none", t |-> NoText, n |-> 0]

DigitChar == <<"0", "1", "2", "3", "4", "5", "6", "7", "8", "9">>

RECURSIVE digits(_)
digits(i) ==
    IF i < 10 THEN <<DigitChar[i + 1]>>
    ELSE digits(i \div 10) \o <<DigitChar[(i % 10) + 1]>>

(* str(v): an mlstr converts through __str__, which returns _s *)
str(h, v) ==
    IF v.k = "obj" THEN h[v.n]
    ELSE IF v.k = "int" THEN digits(v.n)
    ELSE v.t

----------------------------------------------------------------------------
(* str primitives the module relies on *)

Min(a, b) == IF a < b THEN a ELSE b

SetMax(S) == CHOOSE x \in S : \A y \in S : y <= x

Repeat(c, k) == [i \in 1..k |-> c]

RECURSIVE splitNL(_)
splitNL(s) ==
    LET at == {i \in 1..Len(s) : s[i] = NL}
    IN IF at = {} THEN <<s>>
       ELSE LET i == CHOOSE x \in at : \A y \in at : x <= y
            IN <<SubSeq(s, 1, i - 1)>> \o splitNL(SubSeq(s, i + 1, Len(s)))

RECURSIVE joinNL(_)
joinNL(rows) ==
    IF rows = << >> THEN << >>
    ELSE IF Len(rows) = 1 THEN rows[1]
    ELSE rows[1] \o <<NL>> \o joinNL(Tail(rows))

(* [s1+s2 for (s1, s2) in zip(xs, ys)]: zip stops at the shorter sequence *)
zipCat(xs, ys) == [i \in 1..Min(Len(xs), Len(ys)) |-> xs[i] \o ys[i]]

----------------------------------------------------------------------------
(* _align *)

alignNoPad(s) == s

align(s) ==
    LET rows == splitNL(s)
        m == SetMax({Len(rows[i]) : i \in 1..Len(rows)})
    IN joinNL([i \in 1..Len(rows) |-> rows[i] \o Repeat(SP, m - Len(rows[i]))])

----------------------------------------------------------------------------
(* mlstr.height *)

height(s) == Len(splitNL(s))

----------------------------------------------------------------------------
(* mlstr.__add__: s0 is self._s, S is str(s) *)

addNoEqualize(s0, S) ==
    joinNL(zipCat(splitNL(align(s0)), splitNL(S)))

addSwapped(s0, S) ==
    LET n == Len(splitNL(s0))
        m == Len(splitNL(S))
        S1 == IF n > m THEN S \o Repeat(NL, n - m) ELSE S
        s1 == IF n > m THEN s0 ELSE s0 \o Repeat(NL, m - n)
    IN joinNL(zipCat(splitNL(S1), splitNL(align(s1))))

add(s0, S) ==
    LET n == Len(splitNL(s0))
        m == Len(splitNL(S))
        S1 == IF n > m THEN S \o Repeat(NL, n - m) ELSE S
        s1 == IF n > m THEN s0 ELSE s0 \o Repeat(NL, m - n)
    IN joinNL(zipCat(splitNL(align(s1)), splitNL(S1)))

(* mlstr.__radd__: mlstr(s) + self *)
radd(h, self, s) == add(str(h, s), str(h, ObjV(self)))

----------------------------------------------------------------------------
(* mlstr.__iadd__: t is self._s, s the right operand (a str or an mlstr).   *)
(* S = s binds S to the operand itself, so for an mlstr operand the        *)
(* statement S += "\n" * (n-m) is the operand's own __iadd__ and changes   *)
(* the operand's _s in the heap.  Yields the new heap and the new self._s. *)

RECURSIVE iadd(_, _, _)

iaddNoAlign(h, t, s) ==
    LET n == Len(splitNL(t))
        m == Len(splitNL(str(h, s)))
        S1 == IF n > m THEN str(h, s) \o Repeat(NL, n - m) ELSE str(h, s)
        t1 == IF n > m THEN t ELSE t \o Repeat(NL, m - n)
    IN [h |-> h, t |-> joinNL(zipCat(splitNL(t1), splitNL(S1)))]

iadd(h, t, s) ==
    LET n == Len(splitNL(t))
        m == Len(splitNL(str(h, s)))
        h1 == IF n > m /\ s.k = "obj"
              THEN [h EXCEPT ![s.n] = iadd(h, h[s.n], StrV(Repeat(NL, n - m))).t]
              ELSE h
        S1 == IF n > m
              THEN (IF s.k = "obj" THEN h1[s.n] ELSE s.t \o Repeat(NL, n - m))
              ELSE str(h, s)
        t1 == IF n > m THEN t ELSE t \o Repeat(NL, m - n)
    IN [h |-> h1, t |-> joinNL(zipCat(splitNL(align(t1)), splitNL(S1)))]

----------------------------------------------------------------------------
(* mlstr.split *)

splitAnySep(t, sep) == [err |-> "none", rows |-> splitNL(t)]

split(t, sep) ==
    IF sep = <<NL>> THEN [err |-> "none", rows |-> splitNL(t)]
    ELSE [err |-> "NotImplementedError", rows |-> << >>]

----------------------------------------------------------------------------
(* re.split(r'(%[.0]*[sdf])', s): literals at the odd places of the result, *)
(* directives at the even places (1-based)                                 *)

(* where a match of %[.0]*[sdf] that starts at i ends, 0 if there is none *)
matchEnd(s, i) ==
    IF s[i] # "%" THEN 0
    ELSE LET stops == {j \in (i + 1)..Len(s) : s[j] \notin {".", "0"}}
         IN IF stops = {} THEN 0
            ELSE LET j == CHOOSE x \in stops : \A y \in stops : x <= y
                 IN IF s[j] \in {"s", "d", "f"} THEN j ELSE 0

RECURSIVE reScan(_, _, _)
reScan(s, i, start) ==
    IF i > Len(s) THEN <<SubSeq(s, start, Len(s))>>
    ELSE LET j == matchEnd(s, i)
         IN IF j > 0
            THEN <<SubSeq(s, start, i - 1), SubSeq(s, i, j)>> \o reScan(s, j + 1, j + 1)
            ELSE reScan(s, i + 1, start)

reSplit(s) == reScan(s, 1, 1)

----------------------------------------------------------------------------
(* p % v for a directive p = %[.0]*[sdf]: leading 0 are flags, a "." opens  *)
(* the precision (only 0 digits can follow, so it is 0), a second "." is an *)
(* unsupported format character; d and f need a number                      *)

percent(h, p, v) ==
    LET conv == p[Len(p)]
        dots == Cardinality({i \in 2..(Len(p) - 1) : p[i] = "."})
    IN IF dots > 1 THEN [err |-> "ValueError", t |-> NoText]
       ELSE IF conv = "s"
            THEN [err |-> "none", t |-> IF dots = 1 THEN NoText ELSE str(h, v)]
       ELSE IF v.k # "int" THEN [err |-> "TypeError", t |-> NoText]
       ELSE IF conv = "d" THEN [err |-> "none", t |-> digits(v.n)]
       ELSE [err |-> "none",
             t |-> IF dots = 1 THEN digits(v.n)
                   ELSE digits(v.n) \o <<".", "0", "0", "0", "0", "0", "0">>]

----------------------------------------------------------------------------
(* mlstr.__mod__: i is the 1-based place in pats, so the directive at place *)
(* i takes args[i >> 1] of the source, the (i \div 2)-th argument           *)

RECURSIVE modLoop(_, _, _, _, _)

RECURSIVE modLoopNoShift(_, _, _, _, _)
modLoopNoShift(h, pats, args, i, s) ==
    IF i > Len(pats) THEN [err |-> "none", t |-> s]
    ELSE IF i % 2 = 0
         THEN IF i > Len(args) THEN [err |-> "IndexError", t |-> NoText]
              ELSE LET f == percent(h, pats[i], args[i])
                   IN IF f.err # "none" THEN f
                      ELSE modLoopNoShift(h, pats, args, i + 1, iadd(h, s, StrV(f.t)).t)
         ELSE modLoopNoShift(h, pats, args, i + 1, iadd(h, s, StrV(pats[i])).t)

RECURSIVE modLoopClamp(_, _, _, _, _)
modLoopClamp(h, pats, args, i, s) ==
    IF i > Len(pats) THEN [err |-> "none", t |-> s]
    ELSE IF i % 2 = 0
         THEN IF args = << >> THEN [err |-> "IndexError", t |-> NoText]
              ELSE LET f == percent(h, pats[i], args[Min(i \div 2, Len(args))])
                   IN IF f.err # "none" THEN f
                      ELSE modLoopClamp(h, pats, args, i + 1, iadd(h, s, StrV(f.t)).t)
         ELSE modLoopClamp(h, pats, args, i + 1, iadd(h, s, StrV(pats[i])).t)

modLoop(h, pats, args, i, s) ==
    IF i > Len(pats) THEN [err |-> "none", t |-> s]
    ELSE IF i % 2 = 0
         THEN IF i \div 2 > Len(args) THEN [err |-> "IndexError", t |-> NoText]
              ELSE LET f == percent(h, pats[i], args[i \div 2])
                   IN IF f.err # "none" THEN f
                      ELSE modLoop(h, pats, args, i + 1, iadd(h, s, StrV(f.t)).t)
         ELSE modLoop(h, pats, args, i + 1, iadd(h, s, StrV(pats[i])).t)

mod(h, self, args) == modLoop(h, reSplit(h[self]), args, 1, NoText)

----------------------------------------------------------------------------
(* mlstr.join: S is the accumulator mlstr(""); the separator self._s is     *)
(* read at every round; an item is handed to S += as it is                  *)

RECURSIVE joinLoop(_, _, _, _, _)

RECURSIVE joinLoopSepFirst(_, _, _, _, _)
joinLoopSepFirst(h, self, list_str, idx, S) ==
    IF idx > Len(list_str) THEN [h |-> h, t |-> S]
    ELSE LET S1 == iadd(h, S, StrV(h[self])).t
             r == iadd(h, S1, list_str[idx])
         IN joinLoopSepFirst(r.h, self, list_str, idx + 1, r.t)

joinLoop(h, self, list_str, idx, S) ==
    IF idx > Len(list_str) THEN [h |-> h, t |-> S]
    ELSE LET S1 == IF idx > 1 THEN iadd(h, S, StrV(h[self])).t ELSE S
             r == iadd(h, S1, list_str[idx])
         IN joinLoop(r.h, self, list_str, idx + 1, r.t)

join(h, self, list_str) == joinLoop(h, self, list_str, 1, NoText)

----------------------------------------------------------------------------
(* Input domains *)

Rows(c, w) == UNION {[1..k -> {c}] : k \in 0..w}

Texts(c) == {joinNL(rs) : rs \in UNION {[1..k -> Rows(c, MaxWidth)] : k \in 1..MaxRows}}

SeqsUpTo(S, k) == UNION {[1..j -> S] : j \in 0..k}

(* what a caller can pass for an operand: an instance, or the text of one *)
Operands(h) == {ObjV(o) : o \in Obj} \cup {StrV(h[o]) : o \in Obj}

Seps == {<<NL>>, <<",">>, <<SP>>, << >>}

width(t) == LET rows == splitNL(t) IN SetMax({Len(rows[i]) : i \in 1..Len(rows)})

----------------------------------------------------------------------------
(* Results *)

NoRet == [k |-> "none", t |-> NoText, n |-> 0, rows |-> << >>]
NewBlock(t) == [k |-> "new", t |-> t, n |-> 0, rows |-> << >>]
SameBlock(o) == [k |-> "self", t |-> NoText, n |-> o, rows |-> << >>]
IntRet(i) == [k |-> "int", t |-> NoText, n |-> i, rows |-> << >>]
RowsRet(rs) == [k |-> "rows", t |-> NoText, n |-> 0, rows |-> rs]
Raise(e) == [k |-> e, t |-> NoText, n |-> 0, rows |-> << >>]

ModResult(h, self, args) ==
    LET r == mod(h, self, args)
    IN IF r.err = "none" THEN NewBlock(r.t) ELSE Raise(r.err)

Call(op, self, arg) == [op |-> op, self |-> self, arg |-> arg]

----------------------------------------------------------------------------
(* Operations.  The caller invokes one when it holds no pending result    *)
(* (call.op = "none"); the operation records its receiver, its argument,   *)
(* the heap it found and what it returned or raised.                       *)

Add(L, R) ==
    /\ call.op = "none"
    /\ call' = Call("add", L, R)
    /\ old' = heap
    /\ ret' = NewBlock(add(heap[L], str(heap, R)))
    /\ UNCHANGED <<heap, list>>

(* reached only with a left operand that is not an mlstr *)
RAdd(L, R) ==
    /\ call.op = "none"
    /\ R.k = "str"
    /\ call' = Call("radd", L, R)
    /\ old' = heap
    /\ ret' = NewBlock(radd(heap, L, R))
    /\ UNCHANGED <<heap, list>>

(* the receiver is no wider than the input domain, which keeps the texts  *)
(* that repeated += build bounded                                          *)
IAdd(L, R) ==
    /\ call.op = "none"
    /\ width(heap[L]) <= MaxWidth
    /\ LET r == iadd(heap, heap[L], R)
       IN heap' = [r.h EXCEPT ![L] = r.t]
    /\ call' = Call("iadd", L, R)
    /\ old' = heap
    /\ ret' = SameBlock(L)
    /\ UNCHANGED list

Height(L) ==
    /\ call.op = "none"
    /\ call' = Call("height", L, NoneV)
    /\ old' = heap
    /\ ret' = IntRet(height(heap[L]))
    /\ UNCHANGED <<heap, list>>

Split(L, sep) ==
    /\ call.op = "none"
    /\ call' = Call("split", L, StrV(sep))
    /\ old' = heap
    /\ LET r == split(heap[L], sep)
       IN ret' = IF r.err = "none" THEN RowsRet(r.rows) ELSE Raise(r.err)
    /\ UNCHANGED <<heap, list>>

Mod(L) ==
    /\ call.op = "none"
    /\ call' = Call("mod", L, NoneV)
    /\ old' = heap
    /\ ret' = ModResult(heap, L, list)
    /\ UNCHANGED <<heap, list>>

Join(L) ==
    /\ call.op = "none"
    /\ call' = Call("join", L, NoneV)
    /\ old' = heap
    /\ LET r == join(heap, L, list)
       IN /\ heap' = r.h
          /\ ret' = NewBlock(r.t)
    /\ UNCHANGED list

(* The caller's step between two operations: it drops the value it was    *)
(* handed and holds only its instances again                               *)
Return ==
    /\ call.op # "none"
    /\ call' = Call("none", 0, NoneV)
    /\ ret' = NoRet
    /\ old' = heap
    /\ UNCHANGED <<heap, list>>

----------------------------------------------------------------------------
(* Concatenation, height and split over all pairs of bounded blocks *)

InitConcat ==
    /\ \E L \in Texts("a") : \E R \in Texts("b") : heap = [o \in Obj |-> IF o = 1 THEN L ELSE R]
    /\ list = << >>
    /\ call = Call("none", 0, NoneV)
    /\ ret = NoRet
    /\ old = heap

NextConcat ==
    \/ \E L \in Obj : \E R \in Operands(heap) : Add(L, R)
    \/ \E L \in Obj : \E R \in Operands(heap) : RAdd(L, R)
    \/ \E L \in Obj : \E R \in Operands(heap) : IAdd(L, R)
    \/ \E L \in Obj : Height(L)
    \/ \E L \in Obj : \E sep \in Seps : Split(L, sep)
    \/ Return

SpecConcat == InitConcat /\ [][NextConcat]_vars

----------------------------------------------------------------------------
(* Formatted substitution over all format texts of bounded length; the     *)
(* arguments are an int, a str and the two-row instance 2                  *)

FmtChars == {"%", ".", "0", "s", "d", "f", "x"}

ArgVals == {IntV(3), StrV(<<"h", "i">>), ObjV(2)}

ArgSeqs == {<< >>} \cup {<<a>> : a \in ArgVals} \cup {<<a, b>> : a \in ArgVals, b \in ArgVals}

InitFormat ==
    /\ \E t \in SeqsUpTo(FmtChars, MaxFmt) :
           heap = [o \in Obj |-> IF o = 1 THEN t ELSE <<"b", NL, "b", "b">>]
    /\ list \in ArgSeqs
    /\ call = Call("none", 0, NoneV)
    /\ ret = NoRet
    /\ old = heap

NextFormat ==
    \/ Mod(1)
    \/ Return

SpecFormat == InitFormat /\ [][NextFormat]_vars

----------------------------------------------------------------------------
(* Formatted substitution of one %s after a literal prefix by a block      *)

PrefixChars == {"x", "%"}

InitFormatBlock ==
    /\ \E P \in SeqsUpTo(PrefixChars, MaxPrefix) : \E B \in Texts("b") :
           heap = [o \in Obj |-> IF o = 1 THEN P \o <<"%", "s">> ELSE B]
    /\ list \in {<<ObjV(2)>>, <<StrV(heap[2])>>}
    /\ call = Call("none", 0, NoneV)
    /\ ret = NoRet
    /\ old = heap

NextFormatBlock ==
    \/ \E L \in Obj : Mod(L)
    \/ Return

SpecFormatBlock == InitFormatBlock /\ [][NextFormatBlock]_vars

----------------------------------------------------------------------------
(* Join of single-row str items by a single-row separator *)

InitJoinRows ==
    /\ \E sep \in Rows("-", MaxRowWidth) :
           heap = [o \in Obj |-> IF o = 1 THEN sep ELSE <<"b">>]
    /\ list \in SeqsUpTo({StrV(r) : r \in Rows("a", MaxRowWidth)}, MaxRowItems)
    /\ call = Call("none", 0, NoneV)
    /\ ret = NoRet
    /\ old = heap

NextJoinRows ==
    \/ \E L \in Obj : Join(L)
    \/ Return

SpecJoinRows == InitJoinRows /\ [][NextJoinRows]_vars

----------------------------------------------------------------------------
(* Every operation, on blocks of any height, with lists of instances and   *)
(* texts                                                                   *)

Columns == {joinNL([i \in 1..k |-> <<"c">>]) : k \in 1..(MaxRows + 1)}

ListVals(h) == Operands(h) \cup {StrV(t) : t \in Columns}

Init ==
    /\ \E L \in Texts("a") : \E R \in Texts("b") : heap = [o \in Obj |-> IF o = 1 THEN L ELSE R]
    /\ list \in SeqsUpTo(ListVals(heap), MaxItems)
    /\ call = Call("none", 0, NoneV)
    /\ ret = NoRet
    /\ old = heap

Next ==
    \/ \E L \in Obj : \E R \in Operands(heap) : Add(L, R)
    \/ \E L \in Obj : \E R \in Operands(heap) : RAdd(L, R)
    \/ \E L \in Obj : \E R \in Operands(heap) : IAdd(L, R)
    \/ \E L \in Obj : Height(L)
    \/ \E L \in Obj : \E sep \in Seps : Split(L, sep)
    \/ \E L \in Obj : Mod(L)
    \/ \E L \in Obj : Join(L)
    \/ Return

Spec == Init /\ [][Next]_vars

----------------------------------------------------------------------------
(* Vocabulary of the properties *)

Max(a, b) == IF a > b THEN a ELSE b

RowAt(rows, i) == IF i <= Len(rows) THEN rows[i] ELSE << >>

PadTo(row, w) == row \o Repeat(SP, w - Len(row))

SingleRow(t) == \A i \in 1..Len(t) : t[i] # NL

Errors == {"IndexError", "TypeError", "ValueError", "NotImplementedError"}

----------------------------------------------------------------------------
(* C1: row i of L + R, for every i below max(n, m), is row i of L padded   *)
(* with spaces to the width of L's widest row, followed by row i of R as   *)
(* it is; a row past the end of an operand is the empty row.               *)

C1_RowFusion ==
    call.op = "add" =>
        LET Lrows == splitNL(old[call.self])
            Rrows == splitNL(str(old, call.arg))
            w == SetMax({Len(Lrows[i]) : i \in 1..Len(Lrows)})
            res == splitNL(ret.t)
        IN /\ ret.k = "new"
           /\ Len(res) >= Max(Len(Lrows), Len(Rrows))
           /\ \A i \in 1..Max(Len(Lrows), Len(Rrows)) :
                  res[i] = PadTo(RowAt(Lrows, i), w) \o RowAt(Rrows, i)

(* L is shorter than R and not empty, so the row it lacks is padded, and  *)
(* R is ragged with a last row that is not empty                           *)
C1_Witness ==
    /\ call.op = "add"
    /\ LET Lrows == splitNL(old[call.self])
           Rrows == splitNL(str(old, call.arg))
       IN /\ Len(Lrows) < Len(Rrows)
          /\ Len(Lrows[1]) > 0
          /\ Len(Rrows[1]) < Len(Rrows[Len(Rrows)])
    /\ ret.k = "new"

(* C2: height(L + R) = max(height(L), height(R)) for all blocks, the       *)
(* empty text and ragged blocks included.                                  *)

C2_Height ==
    call.op = "add" =>
        height(ret.t) = Max(height(old[call.self]), height(str(old, call.arg)))

(* the empty-text block on the left of a taller block *)
C2_Witness ==
    /\ call.op = "add"
    /\ old[call.self] = << >>
    /\ height(str(old, call.arg)) = MaxRows
    /\ height(ret.t) = MaxRows

(* C3: after L += R with R a text, L's text is the text of L + R, the      *)
(* value returned is L itself, and L's height is max(old height,           *)
(* height(R)), so it never decreases.                                      *)

C3_InPlace ==
    (call.op = "iadd" /\ call.arg.k = "str") =>
        /\ heap[call.self] = add(old[call.self], call.arg.t)
        /\ ret = SameBlock(call.self)
        /\ height(heap[call.self]) = Max(height(old[call.self]), height(call.arg.t))
        /\ height(heap[call.self]) >= height(old[call.self])

(* a later += on a receiver that an earlier one has changed and padded,   *)
(* with a text that widens it                                              *)
C3_Witness ==
    /\ call.op = "iadd"
    /\ call.arg.k = "str"
    /\ old[call.self] \notin Texts("a") \cup Texts("b")
    /\ height(old[call.self]) = MaxRows
    /\ width(heap[call.self]) > width(old[call.self])
    /\ ret = SameBlock(call.self)

(* C4: only += changes the text of an instance, and only of its receiver:  *)
(* +, reflected +, %, join, split and height leave every instance as it    *)
(* was, and L += R leaves R as it was.                                     *)

C4_Frame ==
    /\ call.op \in {"add", "radd", "mod", "join", "split", "height"} => heap = old
    /\ call.op = "iadd" => \A o \in Obj \ {call.self} : heap[o] = old[o]

----------------------------------------------------------------------------
(* C5 *)

(* the receiver is a one-row literal prefix followed by %s and the only    *)
(* argument is an instance of at least two rows                            *)
C5_Case ==
    /\ call.op = "mod"
    /\ LET t == old[call.self]
       IN /\ Len(t) >= 2
          /\ SubSeq(t, Len(t) - 1, Len(t)) = <<"%", "s">>
          /\ SingleRow(t)
          /\ Len(reSplit(SubSeq(t, 1, Len(t) - 2))) = 1
    /\ Len(list) = 1
    /\ list[1].k = "obj"
    /\ height(old[list[1].n]) >= 2

C5_Prefix == SubSeq(old[call.self], 1, Len(old[call.self]) - 2)

C5_Rows ==
    LET b == splitNL(old[list[1].n])
    IN [i \in 1..Len(b) |->
            (IF i = 1 THEN C5_Prefix ELSE Repeat(SP, Len(C5_Prefix))) \o b[i]]

(* C5 as stated: the result has the k rows P + b_0 and p spaces + b_i,     *)
(* with nothing after the argument's rows.                                 *)
C5_Exact ==
    C5_Case => (ret.k = "new" /\ splitNL(ret.t) = C5_Rows)

(* C5 amended: the result has k rows, row 0 is P + b_0 and row i is p      *)
(* spaces + b_i, each followed by the spaces that bring it to the width    *)
(* p + max |b_j| of the widest of them.                                    *)
C5_Padded ==
    C5_Case =>
        LET w == SetMax({Len(C5_Rows[i]) : i \in 1..Len(C5_Rows)})
        IN /\ ret.k = "new"
           /\ splitNL(ret.t) = [i \in 1..Len(C5_Rows) |-> PadTo(C5_Rows[i], w)]

(* a non-empty prefix and an argument whose first row is the narrow one *)
C5_Witness ==
    /\ C5_Case
    /\ Len(C5_Prefix) > 0
    /\ LET b == splitNL(old[list[1].n]) IN Len(b[1]) < Len(b[2])
    /\ ret.k = "new"

----------------------------------------------------------------------------
(* C6 *)

RECURSIVE C6_Fold(_, _, _, _, _)
C6_Fold(h, sep, items, idx, acc) ==
    IF idx > Len(items) THEN acc
    ELSE C6_Fold(h, sep, items, idx + 1,
                 add(IF idx > 1 THEN add(acc, sep) ELSE acc, str(h, items[idx])))

(* C6: join(S, items) is the left fold of + over the items with S's text   *)
(* between them, for str and instance items of any height; its height is   *)
(* the greatest height among the items and, from two items on, S.          *)
C6_JoinFold ==
    call.op = "join" =>
        /\ ret.k = "new"
        /\ ret.t = C6_Fold(old, old[call.self], list, 1, << >>)
        /\ Len(list) >= 1 =>
              height(ret.t) =
                  SetMax({height(str(old, list[i])) : i \in 1..Len(list)}
                         \cup (IF Len(list) >= 2 THEN {height(old[call.self])} ELSE {}))

----------------------------------------------------------------------------
(* C7 *)

RECURSIVE Flatten(_)
Flatten(ss) == IF ss = << >> THEN << >> ELSE Head(ss) \o Flatten(Tail(ss))

(* the directives of the receiver's text, in order *)
Directives(t) == LET pats == reSplit(t) IN [k \in 1..(Len(pats) \div 2) |-> pats[2 * k]]

(* a one-row receiver, an argument for every directive, and every          *)
(* directive formats its argument to one row                               *)
C7_Case ==
    /\ call.op = "mod"
    /\ SingleRow(old[call.self])
    /\ LET ds == Directives(old[call.self])
       IN /\ Len(list) >= Len(ds)
          /\ \A k \in 1..Len(ds) :
                 LET f == percent(old, ds[k], list[k])
                 IN f.err = "none" /\ SingleRow(f.t)

(* C7: on one-row input the result is the literals in their order with     *)
(* the k-th directive replaced by that directive applied to args[k];       *)
(* text that holds no conversion character is copied as it is.             *)
C7_Positional ==
    /\ C7_Case =>
          LET pats == reSplit(old[call.self])
          IN /\ ret.k = "new"
             /\ ret.t = Flatten([i \in 1..Len(pats) |->
                                    IF i % 2 = 0
                                    THEN percent(old, pats[i], list[i \div 2]).t
                                    ELSE pats[i]])
    /\ (/\ call.op = "mod"
        /\ SingleRow(old[call.self])
        /\ \A i \in 1..Len(old[call.self]) : old[call.self][i] \notin {"s", "d", "f"})
       => ret = NewBlock(old[call.self])

(* "%d%s" % [3, "hi"] is "3hi" *)
C7_Witness ==
    /\ C7_Case
    /\ old[call.self] = <<"%", "d", "%", "s">>
    /\ list = <<IntV(3), StrV(<<"h", "i">>)>>
    /\ ret = NewBlock(<<"3", "h", "i">>)

----------------------------------------------------------------------------
(* C8 *)

(* the arguments at hand whose directive does not format them *)
BadArgs(ds) ==
    {k \in 1..Min(Len(list), Len(ds)) : percent(old, ds[k], list[k]).err # "none"}

(* C8 as stated: with d >= 1 directives and fewer than d arguments % fails *)
(* with IndexError and leaves the receiver as it was; with d arguments or  *)
(* more it never fails with IndexError and the arguments from d on do not  *)
(* change the result.                                                      *)
C8_IndexError ==
    call.op = "mod" =>
        LET d == Len(Directives(old[call.self]))
        IN /\ (d >= 1 /\ Len(list) < d) => (ret.k = "IndexError" /\ heap = old)
           /\ Len(list) >= d =>
                 /\ ret.k # "IndexError"
                 /\ ret = ModResult(old, call.self, SubSeq(list, 1, d))

(* C8 amended: with d >= 1 directives and fewer than d arguments % fails,  *)
(* returns no block and leaves the receiver as it was; the error is        *)
(* IndexError when every argument at hand is formatted by its directive,   *)
(* and else the formatter's error of the first one that is not.  With d    *)
(* arguments or more it never fails with IndexError and the arguments      *)
(* from d on do not change the result.                                     *)
C8_FirstError ==
    call.op = "mod" =>
        LET ds == Directives(old[call.self])
            d == Len(ds)
            bad == BadArgs(ds)
            first == CHOOSE k \in bad : \A j \in bad : k <= j
        IN /\ (d >= 1 /\ Len(list) < d) =>
                 /\ heap = old
                 /\ ret.k \in Errors
                 /\ ret.k = IF bad = {} THEN "IndexError"
                            ELSE percent(old, ds[first], list[first]).err
           /\ Len(list) >= d =>
                 /\ ret.k # "IndexError"
                 /\ ret = ModResult(old, call.self, SubSeq(list, 1, d))

(* two directives, one argument that its directive formats: IndexError *)
C8_Witness ==
    /\ call.op = "mod"
    /\ Len(Directives(old[call.self])) = 2
    /\ Len(list) = 1
    /\ BadArgs(Directives(old[call.self])) = {}
    /\ ret = Raise("IndexError")
    /\ heap = old

----------------------------------------------------------------------------
(* C9: split with a separator other than the newline fails with            *)
(* NotImplementedError and leaves the block as it was; split with the      *)
(* newline returns the height(L) rows of L, top to bottom, as texts whose  *)
(* newline-join is L's text.                                               *)

C9_Split ==
    call.op = "split" =>
        /\ heap = old
        /\ IF call.arg.t = <<NL>>
           THEN /\ ret.k = "rows"
                /\ Len(ret.rows) = height(old[call.self])
                /\ \A i \in 1..Len(ret.rows) : SingleRow(ret.rows[i])
                /\ joinNL(ret.rows) = old[call.self]
           ELSE ret = Raise("NotImplementedError")

(* a separator that occurs in the text is refused all the same *)
C9_Witness ==
    /\ call.op = "split"
    /\ call.arg.t = <<SP>>
    /\ \E i \in 1..Len(old[call.self]) : old[call.self][i] = SP
    /\ ret = Raise("NotImplementedError")

----------------------------------------------------------------------------
(* C10 *)

RECURSIVE C10_Plain(_, _)
C10_Plain(sep, items) ==
    IF items = << >> THEN << >>
    ELSE IF Len(items) = 1 THEN items[1].t
    ELSE items[1].t \o sep \o C10_Plain(sep, Tail(items))

(* C10: for a one-row separator and one-row str items, join gives the      *)
(* items in order with the separator's text between them; the empty        *)
(* sequence gives the empty text and one item gives that item's text.      *)
C10_PlainJoin ==
    (/\ call.op = "join"
     /\ SingleRow(old[call.self])
     /\ \A i \in 1..Len(list) : list[i].k = "str" /\ SingleRow(list[i].t))
    => /\ ret = NewBlock(C10_Plain(old[call.self], list))
       /\ list = << >> => ret.t = << >>
       /\ Len(list) = 1 => ret.t = list[1].t

(* "-" over ["a", "aa", ""] is "a-aa-" *)
C10_Witness ==
    /\ call.op = "join"
    /\ old[call.self] = <<"-">>
    /\ list = <<StrV(<<"a">>), StrV(<<"a", "a">>), StrV(<< >>)>>
    /\ ret = NewBlock(<<"a", "-", "a", "a", "-">>)

====
